---- MODULE Spec2Model ----
(***************************************************************************)
(* A model of geoip-web-api's resolution and configuration core:           *)
(*   - GwaDb.lookup / GwaDb.geoIpApiResponse   (src/src/db.ts)             *)
(*   - overlayOptions / getDbOptions            (src/src/utils.ts, the     *)
(*     options module, and its JavaScript predecessor src/unnamed/part_002)*)
(***************************************************************************)
EXTENDS Integers, Sequences, FiniteSets, TLC

VARIABLES
  enabledOutputs_,   \* GwaDb.enabledOutputs_: the list handed to the constructor
  calls,             \* per lookup call: its position and locals
  impl,              \* which overlayOptions is applied: "ts" or "js"
  optSrc,            \* the untrusted source value given to overlayOptions
  optPc,             \* "ready" | "overlaid" | "selected"
  optTarget,         \* the AppOptions overlayOptions returned
  dbOptions,         \* the GwaDbOptions getDbOptions returned
  origins_,          \* Cors.origins_: null or the sanitized origin list
  originRegEx_,      \* Cors.originRegEx_: null or a RegExp with its flags and lastIndex
  corsLast,          \* the latest call on the Cors object, its arguments and its result
  cli,               \* GwaCli.run: its position, locals, thrown error and process.exitCode
  gwaDb              \* the latest new GwaDb(...): the object's fields, or the error thrown

vars == <<enabledOutputs_, calls, impl, optSrc, optPc, optTarget, dbOptions,
          origins_, originRegEx_, corsLast, cli, gwaDb>>
lookupVars == <<enabledOutputs_, calls>>
optionVars == <<impl, optSrc, optPc, optTarget, dbOptions>>
corsVars == <<origins_, originRegEx_, corsLast>>
cliVars == <<cli, gwaDb>>

(***************************************************************************)
(* JavaScript values of the lookup path, all of one shape so that any two  *)
(* can be compared.                                                        *)
(***************************************************************************)
Null == [t |-> "null", s |-> "", n |-> 0]
Str(s) == [t |-> "string", s |-> s, n |-> 0]
Num(n) == [t |-> "number", s |-> "", n |-> n]
Obj(id) == [t |-> "object", s |-> id, n |-> 0]

\* The options variables before overlayOptions has run, and the Cors fields
\* where no Cors object is constructed.
NoSource == << >>

\* Longest enabled-outputs list the constructor is given in the model.
MaxEnabled == 3

\* The five output names the switch of geoIpApiResponse knows, and one it does not.
KnownOutputs == {"ip", "ip_version", "country", "subdivision", "data"}
OutputNames == KnownOutputs \cup {"bogus"}

EnabledLists == UNION {[1..n -> OutputNames] : n \in 0..MaxEnabled}

\* Request IP strings, and net.isIP on each (4, 6, or 0 for anything else).
IPs == {"8.8.8.8", "::1", "999.1.1.1", ""}

isIP(ip) ==
  CASE ip = "8.8.8.8" -> 4
    [] ip = "::1" -> 6
    [] OTHER -> 0

\* The two concurrent callers of lookup.
Calls == {"a", "b"}

(***************************************************************************)
(* The adapter (DbInterface).  Its two implementations are not among the   *)
(* sources; get and getStringValue follow their documented contract.       *)
(* An opaque backend record is named by an identifier.                     *)
(***************************************************************************)
DbRecords == {"recFull", "recNoSubdivision", "recBare"}

\* What get(ip) may resolve to: a record, or null when the IP has no entry.
GetResults == {Obj(r) : r \in DbRecords} \cup {Null}

getStringValue(dbResult, output) ==
  IF dbResult = Null THEN Null
  ELSE CASE output = "country" /\ dbResult.s \in {"recFull", "recNoSubdivision"} -> Str("US")
         [] output = "subdivision" /\ dbResult.s = "recFull" -> Str("CA")
         [] OTHER -> Null

(***************************************************************************)
(* A JavaScript object with string keys, as the sequence of its            *)
(* <<key, value>> entries in insertion order.                              *)
(***************************************************************************)
HasKey(obj, k) == \E i \in 1..Len(obj) : obj[i][1] = k
Keys(obj) == [i \in 1..Len(obj) |-> obj[i][1]]
KeySet(obj) == {obj[i][1] : i \in 1..Len(obj)}
Get(obj, k) == obj[CHOOSE i \in 1..Len(obj) : obj[i][1] = k][2]

\* obj[k] = v: an existing key keeps its place, a new key goes last.
SetKey(obj, k, v) ==
  IF HasKey(obj, k)
  THEN [i \in 1..Len(obj) |-> IF obj[i][1] = k THEN <<k, v>> ELSE obj[i]]
  ELSE Append(obj, <<k, v>>)

\* ip || '' and ipVersion || 0
IpOrEmpty(ip) == IF ip = "" THEN Str("") ELSE Str(ip)
VersionOrZero(ipVersion) == IF ipVersion = 0 THEN Num(0) ELSE Num(ipVersion)

\* Mutant: country and subdivision are written even when unresolved.
ShapeOutputNullPlaceholders(ret, output, dbResult, ip, ipVersion) ==
  CASE output = "ip" -> SetKey(ret, output, IpOrEmpty(ip))
    [] output = "ip_version" -> SetKey(ret, output, VersionOrZero(ipVersion))
    [] output \in {"country", "subdivision"} ->
         SetKey(ret, output, getStringValue(dbResult, output))
    [] output = "data" ->
         IF dbResult # Null THEN SetKey(ret, output, dbResult) ELSE ret
    [] OTHER -> ret

\* One pass of the forEach body of geoIpApiResponse.
ShapeOutput(ret, output, dbResult, ip, ipVersion) ==
  CASE output = "ip" -> SetKey(ret, output, IpOrEmpty(ip))
    [] output = "ip_version" -> SetKey(ret, output, VersionOrZero(ipVersion))
    [] output \in {"country", "subdivision"} ->
         LET value == getStringValue(dbResult, output)
         IN IF value # Null THEN SetKey(ret, output, value) ELSE ret
    [] output = "data" ->
         IF dbResult # Null THEN SetKey(ret, output, dbResult) ELSE ret
    [] OTHER -> ret

RECURSIVE ShapeFrom(_, _, _, _, _, _)
ShapeFrom(ret, outs, i, dbResult, ip, ipVersion) ==
  IF i > Len(outs) THEN ret
  ELSE ShapeFrom(ShapeOutput(ret, outs[i], dbResult, ip, ipVersion),
                 outs, i + 1, dbResult, ip, ipVersion)

\* Mutant: the outputs are visited in a fixed order instead of the list's.
geoIpApiResponseCanonical(outs, dbResult, ip, ipVersion) ==
  ShapeFrom(<< >>,
            SelectSeq(<<"ip", "ip_version", "country", "subdivision", "data">>,
                      LAMBDA o : \E i \in 1..Len(outs) : outs[i] = o),
            1, dbResult, ip, ipVersion)

geoIpApiResponse(outs, dbResult, ip, ipVersion) ==
  ShapeFrom(<< >>, outs, 1, dbResult, ip, ipVersion)

\* Mutant: any enabled output at all counts as needing the database.
isDbNeededAnyOutput(outs) == Len(outs) > 0

\* enabledOutputs_.filter((option) => !ipOutputs.includes(option)).length > 0
isDbNeeded(outs) == \E i \in 1..Len(outs) : outs[i] \notin {"ip", "ip_version"}

IdleCall == [pc |-> "idle", ip |-> "", ipVersion |-> 0, error |-> Null,
             response |-> << >>, dbResult |-> Null, gets |-> 0]

\* Mutant: the short-circuit is taken before the validity check.
LookupSyncShortCircuitFirst(outs, ip) ==
  LET ipVersion == isIP(ip)
      ret == [pc |-> "returned", ip |-> ip, ipVersion |-> ipVersion, error |-> Null,
              response |-> geoIpApiResponse(outs, Null, ip, ipVersion),
              dbResult |-> Null, gets |-> 0]
  IN IF ~isDbNeeded(outs) THEN ret
     ELSE IF ipVersion = 0 THEN [ret EXCEPT !.error = Str("Invalid IP: " \o ip)]
     ELSE [ret EXCEPT !.pc = "awaitGet", !.gets = 1]

\* lookup(ip) from its entry to its first return or to the await of get(ip).
LookupSync(outs, ip) ==
  LET ipVersion == isIP(ip)
      ret == [pc |-> "returned", ip |-> ip, ipVersion |-> ipVersion, error |-> Null,
              response |-> geoIpApiResponse(outs, Null, ip, ipVersion),
              dbResult |-> Null, gets |-> 0]
  IN IF ipVersion = 0 THEN [ret EXCEPT !.error = Str("Invalid IP: " \o ip)]
     ELSE IF ~isDbNeeded(outs) THEN ret
     ELSE [ret EXCEPT !.pc = "awaitGet", !.gets = 1]

\* Mutant: a miss is returned without an error.
LookupAfterGetSilentMiss(outs, call, dbResult) ==
  IF dbResult = Null
  THEN [call EXCEPT !.pc = "returned", !.dbResult = dbResult]
  ELSE [call EXCEPT !.pc = "returned", !.dbResult = dbResult,
                    !.response = geoIpApiResponse(outs, dbResult, call.ip, call.ipVersion)]

\* lookup(ip) from the resolution of get(ip) to its return.
LookupAfterGet(outs, call, dbResult) ==
  IF dbResult = Null
  THEN [call EXCEPT !.pc = "returned", !.dbResult = dbResult,
                    !.error = Str("Failed to search database for IP: " \o call.ip)]
  ELSE [call EXCEPT !.pc = "returned", !.dbResult = dbResult,
                    !.response = geoIpApiResponse(outs, dbResult, call.ip, call.ipVersion)]

InitLookup ==
  /\ enabledOutputs_ \in EnabledLists
  /\ calls = [c \in Calls |-> IdleCall]
  /\ impl = "ts"
  /\ optSrc = NoSource
  /\ optPc = "ready"
  /\ optTarget = NoSource
  /\ dbOptions = NoSource
  /\ origins_ = NoSource
  /\ originRegEx_ = NoSource
  /\ corsLast = NoSource
  /\ cli = NoSource
  /\ gwaDb = NoSource

LookupCall(c, ip) ==
  /\ calls[c].pc = "idle"
  /\ calls' = [calls EXCEPT ![c] = LookupSync(enabledOutputs_, ip)]
  /\ UNCHANGED <<enabledOutputs_, optionVars, corsVars, cliVars>>

\* Mutant: the request IP is kept in a field of the orchestrator, so the
\* continuation shapes its response from the IP of whichever call came last.
GetResolveSharedIp(c, dbResult) ==
  /\ calls[c].pc = "awaitGet"
  /\ LET other == CHOOSE d \in Calls : d # c
         seen == IF calls[other].pc = "idle" THEN calls[c]
                 ELSE [calls[c] EXCEPT !.ip = calls[other].ip,
                                       !.ipVersion = calls[other].ipVersion]
     IN calls' = [calls EXCEPT ![c] =
                    [LookupAfterGet(enabledOutputs_, seen, dbResult) EXCEPT !.ip = calls[c].ip,
                                                                     !.ipVersion = calls[c].ipVersion]]
  /\ UNCHANGED <<enabledOutputs_, optionVars, corsVars, cliVars>>

GetResolve(c, dbResult) ==
  /\ calls[c].pc = "awaitGet"
  /\ calls' = [calls EXCEPT ![c] = LookupAfterGet(enabledOutputs_, calls[c], dbResult)]
  /\ UNCHANGED <<enabledOutputs_, optionVars, corsVars, cliVars>>

\* The transport layer takes the result; the caller may look up again.
TakeResult(c) ==
  /\ calls[c].pc = "returned"
  /\ calls' = [calls EXCEPT ![c] = IdleCall]
  /\ UNCHANGED <<enabledOutputs_, optionVars, corsVars, cliVars>>

NextLookup ==
  \/ \E c \in Calls, ip \in IPs : LookupCall(c, ip)
  \/ \E c \in Calls, r \in GetResults : GetResolve(c, r)
  \/ \E c \in Calls : TakeResult(c)

SpecLookup == InitLookup /\ [][NextLookup]_vars

(***************************************************************************)
(* The options module.  A JavaScript value of the untrusted source is a    *)
(* record of one shape: its kind t, a string as the sequence s of its      *)
(* characters, a number as n halves (n = 5 is 2.5), a boolean as n = 1/0.  *)
(***************************************************************************)
JUndefined == [t |-> "undefined", s |-> << >>, n |-> 0]
JNull == [t |-> "null", s |-> << >>, n |-> 0]
JBool(b) == [t |-> "boolean", s |-> << >>, n |-> IF b THEN 1 ELSE 0]
JNumber(halves) == [t |-> "number", s |-> << >>, n |-> halves]
JNaN == [t |-> "nan", s |-> << >>, n |-> 0]
JString(chars) == [t |-> "string", s |-> chars, n |-> 0]
JRegExp(pattern) == [t |-> "regexp", s |-> pattern, n |-> 0]
JObject == [t |-> "object", s |-> << >>, n |-> 0]

\* typeof v
TypeOf(v) ==
  CASE v.t \in {"number", "nan"} -> "number"
    [] v.t \in {"null", "regexp", "object"} -> "object"
    [] OTHER -> v.t

\* Boolean(v)
Truthy(v) ==
  CASE v.t \in {"undefined", "null", "nan"} -> FALSE
    [] v.t = "boolean" -> v.n = 1
    [] v.t = "number" -> v.n # 0
    [] v.t = "string" -> Len(v.s) > 0
    [] OTHER -> TRUE

\* String.prototype.trim
RECURSIVE TrimLeft(_)
TrimLeft(str) ==
  IF str # << >> /\ Head(str) = " " THEN TrimLeft(Tail(str)) ELSE str

RECURSIVE TrimRight(_)
TrimRight(str) ==
  IF str # << >> /\ str[Len(str)] = " " THEN TrimRight(SubSeq(str, 1, Len(str) - 1)) ELSE str

Trim(str) == TrimRight(TrimLeft(str))

\* String.prototype.toLowerCase, on the letters the model's header names use.
LowerChar(ch) ==
  CASE ch = "A" -> "a"
    [] ch = "B" -> "b"
    [] ch = "H" -> "h"
    [] ch = "P" -> "p"
    [] ch = "S" -> "s"
    [] ch = "T" -> "t"
    [] OTHER -> ch

ToLowerCase(str) == [i \in 1..Len(str) |-> LowerChar(str[i])]

Digits == <<"0", "1", "2", "3", "4", "5", "6", "7", "8", "9">>
IsDigit(ch) == \E d \in 1..10 : Digits[d] = ch
DigitValue(ch) == (CHOOSE d \in 1..10 : Digits[d] = ch) - 1

RECURSIVE DecimalValue(_)
DecimalValue(str) ==
  IF str = << >> THEN 0
  ELSE 10 * DecimalValue(SubSeq(str, 1, Len(str) - 1)) + DigitValue(str[Len(str)])

\* ToNumber(v), the coercion behind >=, <=, > and Math.floor: a number of
\* halves, or NaN.  Strings are decimal integers or not numeric at all.
ToNumber(v) ==
  CASE v.t = "number" -> [nan |-> FALSE, n |-> v.n]
    [] v.t = "boolean" -> [nan |-> FALSE, n |-> 2 * v.n]
    [] v.t = "null" -> [nan |-> FALSE, n |-> 0]
    [] v.t = "string" ->
         LET str == Trim(v.s)
         IN IF \A i \in 1..Len(str) : IsDigit(str[i])
            THEN [nan |-> FALSE, n |-> 2 * DecimalValue(str)]
            ELSE [nan |-> TRUE, n |-> 0]
    [] OTHER -> [nan |-> TRUE, n |-> 0]

\* Math.floor of a number of halves, as an integer.
Floor(halves) == halves \div 2

\* path.sep and os.homedir() of the host (a POSIX host).
PathSep == "/"
HomeDir == <<"/", "h">>

WordChars == {"a", "b", "c", "i", "m", "s", "u", "A", "B", "1", "2", "8", "0", "_"}

\* /^[\w.][\w.\-]*$/.test(user)
isPosixUsername(user) ==
  /\ user # << >>
  /\ user[1] \in WordChars \cup {"."}
  /\ \A i \in 2..Len(user) : user[i] \in WordChars \cup {".", "-"}

\* path.indexOf('/') as a 1-based place, 0 when there is none.
SlashPlace(path) ==
  IF \E i \in 1..Len(path) : path[i] = "/"
  THEN CHOOSE i \in 1..Len(path) : path[i] = "/" /\ \A j \in 1..(i - 1) : path[j] # "/"
  ELSE 0

expandTildePath(path) ==
  IF path = << >> \/ path[1] # "~" \/ PathSep # "/" THEN path
  ELSE IF Len(path) = 1 THEN HomeDir
  ELSE IF path[2] = "/" THEN HomeDir \o Tail(path)
  ELSE LET at == SlashPlace(path)
           user == IF at > 2 THEN SubSeq(path, 2, at - 1) ELSE Tail(path)
       IN IF isPosixUsername(user)
          THEN <<"/", "h", "o", "m", "e", "/">> \o user
                 \o SubSeq(path, 2 + Len(user), Len(path))
          ELSE path

\* enum LogLevel, and the port range of overlayOptions.
LogLevelOff == 0
LogLevelInfo == 3
LogLevelDebug == 4
DefaultPort == 3000
MaxPort == 65535

\* pathJoin(process.cwd(), 'GeoLite2-Country.mmdb'), for a working directory /c
DefaultMaxMindPath == <<"/", "c", "/", "m", "m">>

\* cors.origins: null, or a list.
NullList == [isNull |-> TRUE, items |-> << >>]
List(items) == [isNull |-> FALSE, items |-> items]

getDefaultOptions ==
  [logLevel |-> LogLevelInfo,
   port |-> DefaultPort,
   enabledOutputs |-> [country |-> TRUE, subdivision |-> TRUE, ip |-> FALSE,
                       ip_version |-> FALSE, data |-> FALSE],
   prettyOutput |-> FALSE,
   getHeaders |-> << >>,
   getPaths |-> << <<"/">>, <<"/", "*">> >>,
   cors |-> [origins |-> NullList, originRegEx |-> JNull],
   maxmind |-> [dbPath |-> DefaultMaxMindPath],
   ip2location |-> [dbPath |-> << >>, subdivisionCsvPath |-> << >>]]

\* Log level: the TypeScript module asks for a number within the enum's
\* range; its JavaScript predecessor compares whatever it is given.
overlayLogLevel(im, target, src) ==
  IF im = "ts"
  THEN IF /\ TypeOf(src.logLevel) = "number"
          /\ src.logLevel.t # "nan"
          /\ src.logLevel.n >= 2 * LogLevelOff
          /\ src.logLevel.n <= 2 * LogLevelDebug
       THEN [target EXCEPT !.logLevel = Floor(src.logLevel.n)]
       ELSE target
  ELSE LET x == ToNumber(src.logLevel)
       IN IF ~x.nan /\ x.n >= 2 * 0 /\ x.n <= 2 * 4
          THEN [target EXCEPT !.logLevel = Floor(x.n)]
          ELSE target

\* Port: a number in 0..65535 in the TypeScript module; anything that
\* compares greater than 0 in its JavaScript predecessor.
overlayPort(im, target, src) ==
  IF im = "ts"
  THEN IF /\ TypeOf(src.port) = "number"
          /\ src.port.t # "nan"
          /\ src.port.n >= 2 * 0
          /\ src.port.n <= 2 * MaxPort
       THEN [target EXCEPT !.port = Floor(src.port.n)]
       ELSE target
  ELSE LET x == ToNumber(src.port)
       IN IF ~x.nan /\ x.n > 0
          THEN [target EXCEPT !.port = Floor(x.n)]
          ELSE target

\* Enabled outputs: a known output is overridden by a literal boolean.
overlayEnabledOutputs(target, src) ==
  IF src.enabledOutputs.isObj
  THEN [target EXCEPT !.enabledOutputs =
          [output \in DOMAIN target.enabledOutputs |->
             IF TypeOf(src.enabledOutputs[output]) = "boolean"
             THEN src.enabledOutputs[output].n = 1
             ELSE target.enabledOutputs[output]]]
  ELSE target

overlayPrettyOutput(target, src) ==
  IF TypeOf(src.prettyOutput) = "boolean"
  THEN [target EXCEPT !.prettyOutput = src.prettyOutput.n = 1]
  ELSE target

\* delete headers[key]
DeleteKey(obj, k) == SelectSeq(obj, LAMBDA e : e[1] # k)

\* Object.keys(headers).find((h) => h.toLowerCase() === key.toLowerCase()),
\* as the place of the first such entry, 0 when there is none.
DuplicatePlace(headers, key) ==
  IF \E i \in 1..Len(headers) : ToLowerCase(headers[i][1]) = ToLowerCase(key)
  THEN CHOOSE i \in 1..Len(headers) :
         /\ ToLowerCase(headers[i][1]) = ToLowerCase(key)
         /\ \A j \in 1..(i - 1) : ToLowerCase(headers[j][1]) # ToLowerCase(key)
  ELSE 0

\* Mutant: an earlier case-variant of the key is not deleted.
StageHeaderKeepsVariants(headers, key, value) ==
  IF TypeOf(value) = "string" \/ value = JNull
  THEN SetKey(headers, key, value)
  ELSE headers

\* One pass of the forEach over Object.keys(getHeaders).
StageHeader(headers, key, value) ==
  IF TypeOf(value) = "string" \/ value = JNull
  THEN LET at == DuplicatePlace(headers, key)
           kept == IF at # 0 /\ headers[at][1] # << >>
                   THEN DeleteKey(headers, headers[at][1])
                   ELSE headers
       IN SetKey(kept, key, value)
  ELSE headers

RECURSIVE StageHeaders(_, _, _)
StageHeaders(headers, entries, i) ==
  IF i > Len(entries) THEN headers
  ELSE StageHeaders(StageHeader(headers, entries[i][1], entries[i][2]), entries, i + 1)

overlayGetHeaders(target, src) ==
  IF src.getHeaders.isObj
  THEN [target EXCEPT !.getHeaders = StageHeaders(<< >>, src.getHeaders.entries, 1)]
  ELSE target

\* list.map((p) => (typeof p === 'string' ? p.trim() : '')).filter(Boolean)
TrimmedStrings(items) ==
  LET mapped == [i \in 1..Len(items) |->
                   IF TypeOf(items[i]) = "string" THEN Trim(items[i].s) ELSE << >>]
  IN SelectSeq(mapped, LAMBDA p : p # << >>)

\* Mutant: an emptied list is left empty.
overlayGetPathsNoFallback(target, src) ==
  IF src.getPaths.isArr
  THEN [target EXCEPT !.getPaths = TrimmedStrings(src.getPaths.items)]
  ELSE target

overlayGetPaths(target, src) ==
  IF src.getPaths.isArr
  THEN LET paths == TrimmedStrings(src.getPaths.items)
       IN [target EXCEPT !.getPaths = IF Len(paths) = 0 THEN << <<"/">> >> ELSE paths]
  ELSE target

overlayCors(target, src) ==
  IF src.cors.isObj
  THEN LET withOrigins ==
             IF src.cors.origins.isArr
             THEN [target EXCEPT !.cors.origins = List(TrimmedStrings(src.cors.origins.items))]
             ELSE target
       IN IF /\ TypeOf(src.cors.originRegEx) = "string" \/ src.cors.originRegEx.t = "regexp"
             /\ Truthy(src.cors.originRegEx)
          THEN [withOrigins EXCEPT !.cors.originRegEx = src.cors.originRegEx]
          ELSE withOrigins
  ELSE target

\* The path a backend section's field supplies: trimmed and required to be
\* non-empty by the TypeScript module, taken as it is when a non-empty string
\* by its JavaScript predecessor; << >> when it supplies none.
SuppliedPath(im, v) ==
  IF TypeOf(v) # "string" THEN << >>
  ELSE IF im = "ts" THEN Trim(v.s) ELSE v.s

\* MaxMind properties; the flag tells whether maxMindDefined was set.
overlayMaxMind(im, target, src) ==
  LET dbPath == IF src.maxmind.isObj THEN SuppliedPath(im, src.maxmind.dbPath) ELSE << >>
  IN IF dbPath # << >>
     THEN [target |-> [target EXCEPT !.maxmind.dbPath = expandTildePath(dbPath)],
           maxMindDefined |-> TRUE]
     ELSE [target |-> target, maxMindDefined |-> FALSE]

\* Mutant: the IP2Location section is read whether or not a MaxMind path was taken.
overlayIp2LocationIgnoresMaxMind(im, target, maxMindDefined, src) ==
  IF ~src.ip2location.isObj THEN target
  ELSE LET dbPath == SuppliedPath(im, src.ip2location.dbPath)
           subdivisionCsvPath == SuppliedPath(im, src.ip2location.subdivisionCsvPath)
       IN IF dbPath = << >> THEN target
          ELSE LET activated == [target EXCEPT !.ip2location.dbPath = expandTildePath(dbPath),
                                               !.maxmind.dbPath = << >>]
               IN IF subdivisionCsvPath # << >>
                  THEN [activated EXCEPT !.ip2location.subdivisionCsvPath =
                                            expandTildePath(subdivisionCsvPath)]
                  ELSE activated

\* Mutant: taking the IP2Location path leaves the default MaxMind path in place.
overlayIp2LocationKeepsMaxMind(im, target, maxMindDefined, src) ==
  IF maxMindDefined \/ ~src.ip2location.isObj THEN target
  ELSE LET dbPath == SuppliedPath(im, src.ip2location.dbPath)
           subdivisionCsvPath == SuppliedPath(im, src.ip2location.subdivisionCsvPath)
       IN IF dbPath = << >> THEN target
          ELSE LET activated == [target EXCEPT !.ip2location.dbPath = expandTildePath(dbPath)]
               IN IF subdivisionCsvPath # << >>
                  THEN [activated EXCEPT !.ip2location.subdivisionCsvPath =
                                            expandTildePath(subdivisionCsvPath)]
                  ELSE activated

\* IP2Location properties, looked at only if no MaxMind path was taken.
overlayIp2Location(im, target, maxMindDefined, src) ==
  IF maxMindDefined \/ ~src.ip2location.isObj THEN target
  ELSE LET dbPath == SuppliedPath(im, src.ip2location.dbPath)
           subdivisionCsvPath == SuppliedPath(im, src.ip2location.subdivisionCsvPath)
       IN IF dbPath = << >> THEN target
          ELSE LET activated == [target EXCEPT !.ip2location.dbPath = expandTildePath(dbPath),
                                               !.maxmind.dbPath = << >>]
               IN IF subdivisionCsvPath # << >>
                  THEN [activated EXCEPT !.ip2location.subdivisionCsvPath =
                                            expandTildePath(subdivisionCsvPath)]
                  ELSE activated

\* Mutant: the overlay gives up at the first field given with a wrong type.
overlayOptionsStopsAtWrongType(im, src) ==
  IF ~src.isObj THEN getDefaultOptions
  ELSE LET t1 == overlayLogLevel(im, getDefaultOptions, src)
           t2 == overlayPort(im, t1, src)
           t3 == overlayEnabledOutputs(t2, src)
           t4 == overlayPrettyOutput(t3, src)
           t5 == overlayGetHeaders(t4, src)
           t6 == overlayGetPaths(t5, src)
           t7 == overlayCors(t6, src)
           mm == overlayMaxMind(im, t7, src)
       IN IF src.prettyOutput.t \notin {"undefined", "boolean"} THEN t3
          ELSE overlayIp2Location(im, mm.target, mm.maxMindDefined, src)

overlayOptions(im, src) ==
  IF ~src.isObj THEN getDefaultOptions
  ELSE LET t1 == overlayLogLevel(im, getDefaultOptions, src)
           t2 == overlayPort(im, t1, src)
           t3 == overlayEnabledOutputs(t2, src)
           t4 == overlayPrettyOutput(t3, src)
           t5 == overlayGetHeaders(t4, src)
           t6 == overlayGetPaths(t5, src)
           t7 == overlayCors(t6, src)
           mm == overlayMaxMind(im, t7, src)
       IN overlayIp2Location(im, mm.target, mm.maxMindDefined, src)

\* getDbOptions: the provider, and the options object handed over with it.
NoBackendOptions == [set |-> FALSE, dbPath |-> << >>, subdivisionCsvPath |-> << >>]

getDbOptions(appOptions) ==
  IF appOptions.maxmind.dbPath # << >>
  THEN [dbProvider |-> "MAXMIND",
        maxMindOptions |-> [set |-> TRUE, dbPath |-> appOptions.maxmind.dbPath,
                            subdivisionCsvPath |-> << >>],
        ip2LocationOptions |-> NoBackendOptions]
  ELSE IF appOptions.ip2location.dbPath # << >>
  THEN [dbProvider |-> "IP2LOCATION",
        maxMindOptions |-> NoBackendOptions,
        ip2LocationOptions |-> [set |-> TRUE, dbPath |-> appOptions.ip2location.dbPath,
                                subdivisionCsvPath |-> appOptions.ip2location.subdivisionCsvPath]]
  ELSE [dbProvider |-> "UNKNOWN",
        maxMindOptions |-> NoBackendOptions,
        ip2LocationOptions |-> NoBackendOptions]

(***************************************************************************)
(* The sources overlayOptions is given.  A section that is not an object   *)
(* (missing, null, a number, ...) has isObj FALSE; a field that is missing *)
(* is JUndefined, which is what reading it yields.                         *)
(***************************************************************************)
\* Longest getHeaders object and longest getPaths / cors.origins list of a source.
MaxHeaders == 2
MaxPaths == 2

LogLevelValues ==
  {JUndefined, JNull, JNaN, JObject, JBool(TRUE), JString(<<"2">>), JString(<<"x">>),
   JNumber(-1), JNumber(0), JNumber(5), JNumber(8), JNumber(9)}

PortValues ==
  {JUndefined, JNull, JString(<<"8", "0">>), JNumber(-2), JNumber(0), JNumber(1),
   JNumber(161), JNumber(2 * MaxPort), JNumber(2 * MaxPort + 1), JNumber(2 * MaxPort + 2)}

ToggleValues == {JUndefined, JBool(TRUE), JBool(FALSE), JString(<<"1">>)}

NoEnabledOutputs ==
  [isObj |-> FALSE, country |-> JUndefined, subdivision |-> JUndefined, ip |-> JUndefined,
   ip_version |-> JUndefined, data |-> JUndefined]

EnabledOutputsValues ==
  {NoEnabledOutputs} \cup
  {[NoEnabledOutputs EXCEPT !.isObj = TRUE, !.country = c, !.ip = i, !.data = d] :
     c \in ToggleValues, i \in ToggleValues, d \in {JUndefined, JBool(TRUE)}}

PrettyOutputValues == {JUndefined, JBool(TRUE), JBool(FALSE), JString(<<"1">>)}

HeaderKeys == {<<"A", "b">>, <<"a", "B">>, <<"c">>}
HeaderValues == {JString(<<"1">>), JString(<<"2">>), JNull, JNumber(2)}

\* Objects have no two equal keys.
HeaderObjects ==
  UNION {{e \in [1..n -> HeaderKeys \X HeaderValues] :
            \A i, j \in 1..n : i # j => e[i][1] # e[j][1]} : n \in 0..MaxHeaders}

GetHeadersValues ==
  {[isObj |-> FALSE, entries |-> << >>]} \cup {[isObj |-> TRUE, entries |-> e] : e \in HeaderObjects}

PathItems ==
  {JString(<<"/">>), JString(<<" ", "/", "a", " ">>), JString(<<" ">>), JString(<< >>), JNumber(10)}

NoList == [isArr |-> FALSE, items |-> << >>]

GetPathsValues ==
  {NoList} \cup {[isArr |-> TRUE, items |-> l] : l \in UNION {[1..n -> PathItems] : n \in 0..MaxPaths}}

OriginsValues ==
  {NoList, [isArr |-> TRUE, items |-> << >>],
   [isArr |-> TRUE, items |-> <<JString(<<" ", "a">>), JNumber(2), JString(<<" ">>)>>]}

OriginRegExValues ==
  {JUndefined, JNull, JString(<< >>), JString(<<"^", "a">>), JRegExp(<<"a">>), JNumber(2)}

NoCors == [isObj |-> FALSE, origins |-> NoList, originRegEx |-> JUndefined]

CorsValues ==
  {NoCors} \cup
  {[isObj |-> TRUE, origins |-> o, originRegEx |-> r] : o \in OriginsValues, r \in OriginRegExValues}

DbPathValues ==
  {JUndefined, JNumber(2), JString(<< >>), JString(<<" ">>), JString(<<"/", "m">>),
   JString(<<" ", "~", "/", "m", " ">>), JString(<<"~">>)}

NoMaxMind == [isObj |-> FALSE, dbPath |-> JUndefined]

MaxMindValues == {NoMaxMind} \cup {[isObj |-> TRUE, dbPath |-> d] : d \in DbPathValues}

Ip2DbPathValues ==
  {JUndefined, JNumber(2), JString(<<" ">>), JString(<<"/", "i">>), JString(<<"~", "u", "/", "i">>)}

CsvPathValues == {JUndefined, JNumber(2), JString(<<" ">>), JString(<<" ", "/", "s", " ">>)}

NoIp2Location == [isObj |-> FALSE, dbPath |-> JUndefined, subdivisionCsvPath |-> JUndefined]

Ip2LocationValues ==
  {NoIp2Location} \cup
  {[isObj |-> TRUE, dbPath |-> d, subdivisionCsvPath |-> c] :
     d \in Ip2DbPathValues, c \in CsvPathValues}

\* The empty object {}, and a source that is no object at all.
EmptyObject ==
  [isObj |-> TRUE, logLevel |-> JUndefined, port |-> JUndefined,
   enabledOutputs |-> NoEnabledOutputs, prettyOutput |-> JUndefined,
   getHeaders |-> [isObj |-> FALSE, entries |-> << >>], getPaths |-> NoList,
   cors |-> NoCors, maxmind |-> NoMaxMind, ip2location |-> NoIp2Location]

NonObject == [EmptyObject EXCEPT !.isObj = FALSE]

SectionNames ==
  <<"logLevel", "port", "enabledOutputs", "prettyOutput", "getHeaders", "getPaths",
    "cors", "maxmind", "ip2location">>

SectionValues ==
  [logLevel |-> LogLevelValues, port |-> PortValues, enabledOutputs |-> EnabledOutputsValues,
   prettyOutput |-> PrettyOutputValues, getHeaders |-> GetHeadersValues,
   getPaths |-> GetPathsValues, cors |-> CorsValues, maxmind |-> MaxMindValues,
   ip2location |-> Ip2LocationValues]

\* The object that gives section i as v1 and section j as v2 and nothing else.
SourceOf(i, v1, j, v2) ==
  [EmptyObject EXCEPT ![SectionNames[i]] = v1, ![SectionNames[j]] = v2]

\* The source is no object, or any object that gives at most two sections,
\* in every combination of two sections and of their values.
InitOptions ==
  /\ impl \in {"ts", "js"}
  /\ \/ optSrc = NonObject
     \/ \E i, j \in 1..Len(SectionNames) :
          /\ i < j
          /\ \E v1 \in SectionValues[SectionNames[i]], v2 \in SectionValues[SectionNames[j]] :
               optSrc = SourceOf(i, v1, j, v2)
  /\ optPc = "ready"
  /\ optTarget = NoSource
  /\ dbOptions = NoSource
  /\ enabledOutputs_ = << >>
  /\ calls = [c \in Calls |-> IdleCall]
  /\ origins_ = NoSource
  /\ originRegEx_ = NoSource
  /\ corsLast = NoSource
  /\ cli = NoSource
  /\ gwaDb = NoSource

OverlayOptions ==
  /\ optPc = "ready"
  /\ optTarget' = overlayOptions(impl, optSrc)
  /\ optPc' = "overlaid"
  /\ UNCHANGED <<impl, optSrc, dbOptions, lookupVars, corsVars, cliVars>>

GetDbOptions ==
  /\ optPc = "overlaid"
  /\ dbOptions' = getDbOptions(optTarget)
  /\ optPc' = "selected"
  /\ UNCHANGED <<impl, optSrc, optTarget, lookupVars, corsVars, cliVars>>

NextOptions ==
  \/ OverlayOptions
  \/ GetDbOptions

SpecOptions == InitOptions /\ [][NextOptions]_vars

(***************************************************************************)
(* The Cors matcher (cors.ts).  Strings are sequences of characters.        *)
(***************************************************************************)
MaxOrigins == 2

SchemeLetters == {"a", "b", "h", "m", "p", "s", "t", "x", "A", "B", "H", "P", "S", "T"}
SpecialSchemes == {<<"h", "t", "t", "p">>, <<"h", "t", "t", "p", "s">>}
DefaultPortOf(scheme) == IF scheme = <<"h", "t", "t", "p">> THEN 80 ELSE 443

\* The least index of ch in str, or 0.
IndexOf(str, ch) ==
  IF \E i \in 1..Len(str) : str[i] = ch
  THEN CHOOSE i \in 1..Len(str) : str[i] = ch /\ \A j \in 1..(i - 1) : str[j] # ch
  ELSE 0

RECURSIVE SkipSlashes(_)
SkipSlashes(str) ==
  IF str # << >> /\ Head(str) = "/" THEN SkipSlashes(Tail(str)) ELSE str

\* The authority of a special URL: what precedes the first "/", "?" or "#".
AuthorityOf(str) ==
  LET ends == {i \in 1..Len(str) : str[i] \in {"/", "?", "#"}}
  IN IF ends = {} THEN str
     ELSE SubSeq(str, 1, (CHOOSE i \in ends : \A j \in ends : i <= j) - 1)

UrlFailure == [ok |-> FALSE, origin |-> << >>]

\* new URL(o).origin with no base URL: the scheme is what precedes the first
\* ":", a letter first; a special scheme takes a non-empty host without spaces
\* and an optional numeric port, and serializes as scheme://host[:port] in
\* lower case with the default port left out; any other scheme has an opaque
\* origin, which serializes as "null".  ok is FALSE where the constructor throws.
URLOrigin(o) ==
  LET colon == IndexOf(o, ":")
  IN IF colon <= 1 \/ \E i \in 1..(colon - 1) : o[i] \notin SchemeLetters THEN UrlFailure
     ELSE LET scheme == ToLowerCase(SubSeq(o, 1, colon - 1))
              authority == AuthorityOf(SkipSlashes(SubSeq(o, colon + 1, Len(o))))
              portAt == IndexOf(authority, ":")
              host == IF portAt = 0 THEN authority ELSE SubSeq(authority, 1, portAt - 1)
              port == IF portAt = 0 THEN << >>
                      ELSE SubSeq(authority, portAt + 1, Len(authority))
          IN IF scheme \notin SpecialSchemes
             THEN [ok |-> TRUE, origin |-> <<"n", "u", "l", "l">>]
             ELSE IF host = << >> \/ (\E i \in 1..Len(host) : host[i] = " ")
                       \/ (\E i \in 1..Len(port) : ~IsDigit(port[i]))
             THEN UrlFailure
             ELSE [ok |-> TRUE,
                   origin |-> scheme \o <<":", "/", "/">> \o ToLowerCase(host) \o
                              (IF port = << >> \/ DecimalValue(port) = DefaultPortOf(scheme)
                               THEN << >> ELSE <<":">> \o port)]

\* origins.map(...), element by element.
RECURSIVE MapTrim(_)
MapTrim(items) ==
  IF items = << >> THEN << >> ELSE <<Trim(Head(items))>> \o MapTrim(Tail(items))

\* .filter(Boolean) on strings.
RECURSIVE FilterNonEmpty(_)
FilterNonEmpty(items) ==
  IF items = << >> THEN << >>
  ELSE (IF Head(items) # << >> THEN <<Head(items)>> ELSE << >>) \o FilterNonEmpty(Tail(items))

\* The second map: the URL's origin, or '' where new URL throws.
RECURSIVE MapOrigin(_)
MapOrigin(items) ==
  IF items = << >> THEN << >>
  ELSE <<(IF URLOrigin(Head(items)).ok THEN URLOrigin(Head(items)).origin ELSE << >>)>>
       \o MapOrigin(Tail(items))

\* An argument for origins: null, a list of strings, or some other value.
NullOrigins == [kind |-> "null", items |-> << >>]
OriginsArray(items) == [kind |-> "array", items |-> items]
NotAnArray == [kind |-> "other", items |-> << >>]

\* Mutant: the sanitized list is stored even when nothing survived.
sanitizeOriginsKeepsEmpty(origins) ==
  IF origins.kind # "array" THEN NullList
  ELSE List(FilterNonEmpty(MapOrigin(FilterNonEmpty(MapTrim(origins.items)))))

sanitizeOrigins(origins) ==
  IF origins.kind # "array" THEN NullList
  ELSE LET sanitizedOrigins == FilterNonEmpty(MapOrigin(FilterNonEmpty(MapTrim(origins.items))))
       IN IF Len(sanitizedOrigins) # 0 THEN List(sanitizedOrigins) ELSE NullList

\* RegExp values: the pattern source, the flags, and lastIndex.
NullRegEx == [isNull |-> TRUE, source |-> << >>, flags |-> {}, lastIndex |-> 0]
RegEx(source, flags, lastIndex) ==
  [isNull |-> FALSE, source |-> source, flags |-> flags, lastIndex |-> lastIndex]

\* An argument for originRegEx: null, a string, a RegExp, or some other value.
NullRegExArg == [kind |-> "null", source |-> << >>, flags |-> {}, lastIndex |-> 0]
StringArg(source) == [kind |-> "string", source |-> source, flags |-> {}, lastIndex |-> 0]
RegExpArg(source, flags, lastIndex) ==
  [kind |-> "regexp", source |-> source, flags |-> flags, lastIndex |-> lastIndex]
OtherArg == [kind |-> "other", source |-> << >>, flags |-> {}, lastIndex |-> 0]

\* Patterns are literal characters with an optional leading ^ and trailing $;
\* a "(" is an unterminated group, which new RegExp rejects.
ValidPattern(source) == \A i \in 1..Len(source) : source[i] # "("
AnchoredStart(source) == source # << >> /\ Head(source) = "^"
AnchoredEnd(source) == source # << >> /\ source[Len(source)] = "$"
PatternBody(source) ==
  SubSeq(source, IF AnchoredStart(source) THEN 2 ELSE 1,
                 IF AnchoredEnd(source) THEN Len(source) - 1 ELSE Len(source))

\* Whether the pattern matches str starting at the 0-based index i.
MatchesAt(re, str, i) ==
  LET body == PatternBody(re.source)
      same(a, b) == IF "i" \in re.flags THEN LowerChar(a) = LowerChar(b) ELSE a = b
  IN /\ AnchoredStart(re.source) => i = 0
     /\ i + Len(body) <= Len(str)
     /\ AnchoredEnd(re.source) => i + Len(body) = Len(str)
     /\ \A k \in 1..Len(body) : same(str[i + k], body[k])

\* RegExp.prototype.test: a global or sticky RegExp starts at lastIndex and
\* moves it to the end of the match, or to 0 when there is none; any other
\* RegExp starts at 0 and leaves lastIndex alone.
Test(re, str) ==
  LET tracked == re.flags \cap {"g", "y"} # {}
      start == IF tracked THEN re.lastIndex ELSE 0
      candidates == IF start > Len(str) THEN {}
                    ELSE IF "y" \in re.flags THEN {start} ELSE start..Len(str)
      hits == {i \in candidates : MatchesAt(re, str, i)}
  IN IF hits = {}
     THEN [result |-> FALSE, lastIndex |-> IF tracked THEN 0 ELSE re.lastIndex]
     ELSE LET first == CHOOSE i \in hits : \A j \in hits : i <= j
          IN [result |-> TRUE,
              lastIndex |-> IF tracked THEN first + Len(PatternBody(re.source))
                            ELSE re.lastIndex]

parseOriginsRegEx(originRegEx) ==
  IF originRegEx.kind = "string"
  THEN IF ValidPattern(originRegEx.source) THEN RegEx(originRegEx.source, {"i"}, 0)
       ELSE NullRegEx
  ELSE IF originRegEx.kind = "regexp"
  THEN RegEx(originRegEx.source, originRegEx.flags, originRegEx.lastIndex)
  ELSE NullRegEx

\* options.origins || null and options.originRegEx || null: an array and a
\* RegExp are truthy, the empty string is not.
OriginsOrNull(origins) == IF origins.kind = "array" \/ origins.kind = "other" THEN origins ELSE NullOrigins
RegExOrNull(originRegEx) ==
  IF originRegEx.kind = "string" /\ originRegEx.source = << >> THEN NullRegExArg
  ELSE originRegEx

Includes(items, x) == \E i \in 1..Len(items) : items[i] = x

\* isCorsOrigin: its result, and the RegExp as test() leaves it.  test() is
\* reached only for a non-empty origin that the list does not hold.
isCorsOrigin(origins, re, origin) ==
  IF origin = << >> THEN [result |-> FALSE, originRegEx |-> re]
  ELSE IF ~origins.isNull /\ Includes(origins.items, origin)
  THEN [result |-> TRUE, originRegEx |-> re]
  ELSE IF ~re.isNull
  THEN [result |-> Test(re, origin).result,
        originRegEx |-> [re EXCEPT !.lastIndex = Test(re, origin).lastIndex]]
  ELSE [result |-> FALSE, originRegEx |-> re]

AllowOrigin == <<"A", "l", "l", "o", "w">>

\* getCorsHeaders: headers is the returned map as a list of name-value pairs,
\* isNull where null is returned.
getCorsHeaders(origins, re, hasOrigin, origin) ==
  IF ~hasOrigin \/ origin = << >>
  THEN [isNull |-> TRUE, headers |-> << >>, originRegEx |-> re]
  ELSE LET allowed == isCorsOrigin(origins, re, origin)
       IN IF allowed.result
          THEN [isNull |-> FALSE, headers |-> << <<AllowOrigin, origin>> >>,
                originRegEx |-> allowed.originRegEx]
          ELSE [isNull |-> TRUE, headers |-> << >>, originRegEx |-> allowed.originRegEx]

\* Arguments and queried origins.
HttpsA == <<"h", "t", "t", "p", "s", ":", "/", "/", "a">>
HttpB == <<"h", "t", "t", "p", ":", "/", "/", "b">>
OriginItems ==
  {<< >>, <<" ">>, <<"x">>, <<" ">> \o HttpsA \o <<"/", "p", " ">>,
   <<"H", "T", "T", "P", "S", ":", "/", "/", "A">>, HttpB \o <<":", "8", "0">>,
   <<"m", ":", "x">>, <<"h", "t", "t", "p", "s", ":", "/", "/">>}
OriginLists == UNION {[1..n -> OriginItems] : n \in 0..MaxOrigins}
OriginsArgs == {NullOrigins, NotAnArray} \cup {OriginsArray(items) : items \in OriginLists}
RegExArgs ==
  {NullRegExArg, OtherArg, StringArg(<< >>), StringArg(<<"a">>), StringArg(<<"(">>),
   StringArg(<<"^">> \o HttpB \o <<"$">>),
   RegExpArg(<<"A">>, {}, 0), RegExpArg(<<"a">>, {"g"}, 0), RegExpArg(<<"h">>, {"y"}, 0),
   RegExpArg(<<"b">>, {"g", "i"}, 1)}
QueryOrigins ==
  {<< >>, HttpsA, HttpB, <<"n", "u", "l", "l">>, <<"H", "T", "T", "P", "S", ":", "/", "/", "A">>}

\* What corsLast records of a call.
CorsCall(op, originsArg, regExArg, hasOrigin, origin, result, headers) ==
  [op |-> op, originsArg |-> originsArg, regExArg |-> regExArg, hasOrigin |-> hasOrigin,
   origin |-> origin, result |-> result, headers |-> headers]

\* The state after new Cors(options, log).
InitCors ==
  /\ \E o \in OriginsArgs, r \in RegExArgs :
       /\ origins_ = sanitizeOrigins(OriginsOrNull(o))
       /\ originRegEx_ = parseOriginsRegEx(RegExOrNull(r))
       /\ corsLast = CorsCall("constructor", o, r, FALSE, << >>, FALSE, << >>)
  /\ enabledOutputs_ = << >>
  /\ calls = [c \in Calls |-> IdleCall]
  /\ impl = "ts"
  /\ optSrc = NoSource
  /\ optPc = "ready"
  /\ optTarget = NoSource
  /\ dbOptions = NoSource
  /\ cli = NoSource
  /\ gwaDb = NoSource

SetOrigins(origins) ==
  /\ origins_' = sanitizeOrigins(origins)
  /\ corsLast' = CorsCall("setOrigins", origins, NullRegExArg, FALSE, << >>, FALSE, << >>)
  /\ UNCHANGED <<originRegEx_, lookupVars, optionVars, cliVars>>

SetOriginRegEx(originRegEx) ==
  /\ originRegEx_' = parseOriginsRegEx(originRegEx)
  /\ corsLast' = CorsCall("setOriginRegEx", NullOrigins, originRegEx, FALSE, << >>, FALSE, << >>)
  /\ UNCHANGED <<origins_, lookupVars, optionVars, cliVars>>

IsCorsOrigin(origin) ==
  LET answer == isCorsOrigin(origins_, originRegEx_, origin)
  IN /\ originRegEx_' = answer.originRegEx
     /\ corsLast' = CorsCall("isCorsOrigin", NullOrigins, NullRegExArg, TRUE, origin,
                             answer.result, << >>)
     /\ UNCHANGED <<origins_, lookupVars, optionVars, cliVars>>

GetCorsHeaders(hasOrigin, origin) ==
  LET answer == getCorsHeaders(origins_, originRegEx_, hasOrigin, origin)
  IN /\ originRegEx_' = answer.originRegEx
     /\ corsLast' = CorsCall("getCorsHeaders", NullOrigins, NullRegExArg, hasOrigin, origin,
                             ~answer.isNull, answer.headers)
     /\ UNCHANGED <<origins_, lookupVars, optionVars, cliVars>>

NextCors ==
  \/ \E origins \in OriginsArgs : SetOrigins(origins)
  \/ \E originRegEx \in RegExArgs : SetOriginRegEx(originRegEx)
  \/ \E origin \in QueryOrigins : IsCorsOrigin(origin)
  \/ \E origin \in QueryOrigins : GetCorsHeaders(TRUE, origin)
  \/ GetCorsHeaders(FALSE, << >>)

SpecCors == InitCors /\ [][NextCors]_vars

(***************************************************************************)
(* Startup: GwaCli.run (cli.ts) and the GwaDb constructor (db.ts).         *)
(***************************************************************************)
InvalidConfigPath == "Invalid custom config path"
FailedToReadConfig == "Failed to read custom config"
CouldNotReadDatabase == "Could not read database"
ServerFailure == "GwaServer failure"

\* config.replace(/^['"\s]|['"\s]$/g, ''): one quote or space off each end.
StripQuotes(config) ==
  LET quotes == {"'", "\"", " "}
      headless == IF config # << >> /\ Head(config) \in quotes THEN Tail(config) ELSE config
  IN IF headless # << >> /\ headless[Len(headless)] \in quotes
     THEN SubSeq(headless, 1, Len(headless) - 1)
     ELSE headless

\* The one configuration file of the host; reading any other path throws.
ConfigPath == <<"/", "c">>
BadJson == [valid |-> FALSE, src |-> NonObject]
JsonText(src) == [valid |-> TRUE, src |-> src]

\* getUserOptions(path): ok is FALSE where readFileSync or JSON.parse throws.
getUserOptions(path, file) ==
  IF Trim(path) = << >> THEN [ok |-> TRUE, options |-> getDefaultOptions]
  ELSE IF path # ConfigPath \/ ~file.valid THEN [ok |-> FALSE, options |-> getDefaultOptions]
  ELSE [ok |-> TRUE, options |-> overlayOptions("ts", file.src)]

\* The first block of run: the options, or the error thrown.
LoadOptions(argvConfig, file) ==
  IF Truthy(argvConfig)
  THEN LET config == IF TypeOf(argvConfig) = "string" THEN Trim(argvConfig.s) ELSE << >>
       IN IF config = << >>
          THEN [ok |-> FALSE, error |-> InvalidConfigPath, options |-> getDefaultOptions]
          ELSE LET user == getUserOptions(expandTildePath(StripQuotes(config)), file)
               IN IF user.ok THEN [ok |-> TRUE, error |-> "", options |-> user.options]
                  ELSE [ok |-> FALSE, error |-> FailedToReadConfig,
                        options |-> getDefaultOptions]
  ELSE [ok |-> TRUE, error |-> "", options |-> getDefaultOptions]

\* (a && expandTildePath(a)) || (b && expandTildePath(b))
SelectDbPath(options) ==
  LET first == IF options.maxmind.dbPath # << >>
               THEN expandTildePath(options.maxmind.dbPath) ELSE << >>
  IN IF first # << >> THEN first
     ELSE IF options.ip2location.dbPath # << >>
     THEN expandTildePath(options.ip2location.dbPath)
     ELSE << >>

\* Mutant: the path is only tested for being defined, accessSync is left out.
assertPathDefinedOnly(path, accessible) == Trim(path) # << >>

\* assertPath(path): TRUE where it returns, FALSE where it throws;
\* accessible is what accessSync(path, F_OK) finds on the host.
assertPath(path, accessible) == Trim(path) # << >> /\ accessible

CliStart ==
  [pc |-> "start", argvConfig |-> JUndefined, loaded |-> FALSE, options |-> getDefaultOptions,
   dbPath |-> << >>, asserted |-> FALSE, accessible |-> FALSE, error |-> "", exitCode |-> 0]

\* run() from its entry to the await of gwaServer.start(), or to its throw.
run(argvConfig, file, accessible, serverConstructs) ==
  LET loaded == LoadOptions(argvConfig, file)
      dbPath == SelectDbPath(loaded.options)
      entered == [CliStart EXCEPT !.argvConfig = argvConfig]
  IN IF ~loaded.ok THEN [entered EXCEPT !.pc = "rejected", !.error = loaded.error]
     ELSE LET checked == [entered EXCEPT !.loaded = TRUE, !.options = loaded.options,
                                         !.dbPath = dbPath, !.asserted = TRUE,
                                         !.accessible = accessible]
          IN IF ~assertPath(dbPath, accessible)
             THEN [checked EXCEPT !.pc = "rejected", !.error = CouldNotReadDatabase]
             ELSE IF ~serverConstructs
             THEN [checked EXCEPT !.pc = "rejected", !.error = ServerFailure]
             ELSE [checked EXCEPT !.pc = "starting"]

ArgvConfigValues ==
  {JUndefined, JBool(TRUE), JNumber(10), JString(<< >>), JString(<<" ">>),
   JString(<<"'", "'">>), JString(<<"/", "c">>), JString(<<"\"", "/", "c", "\"">>),
   JString(<<"/", "x">>)}

\* A GwaDbOptions value: the provider and the two optional option objects.
GwaDbOptionsValues ==
  {[dbProvider |-> p, maxMindOptions |-> m, ip2LocationOptions |-> i] :
     p \in {"MAXMIND", "IP2LOCATION", "UNKNOWN"},
     m \in {NoBackendOptions,
            [set |-> TRUE, dbPath |-> <<"/", "m">>, subdivisionCsvPath |-> << >>]},
     i \in {NoBackendOptions,
            [set |-> TRUE, dbPath |-> <<"/", "i">>, subdivisionCsvPath |-> <<"/", "s">>]}}

NoInterface == [made |-> FALSE, adapter |-> "", error |-> ""]

\* getDbInterface: the adapter constructed, or the error thrown; opens is
\* whether the adapter's own constructor succeeds in opening its files.
getDbInterface(gwaDbOptions, opens) ==
  IF gwaDbOptions.dbProvider = "MAXMIND"
  THEN IF ~gwaDbOptions.maxMindOptions.set
       THEN [NoInterface EXCEPT !.error = "MaxMind database indicated but options not available"]
       ELSE IF opens THEN [made |-> TRUE, adapter |-> "GwaMaxMind", error |-> ""]
            ELSE [NoInterface EXCEPT !.error = "GwaMaxMind failure"]
  ELSE IF gwaDbOptions.dbProvider = "IP2LOCATION"
  THEN IF ~gwaDbOptions.ip2LocationOptions.set
       THEN [NoInterface EXCEPT !.error = "IP2Location database indicated but options not available"]
       ELSE IF opens THEN [made |-> TRUE, adapter |-> "GwaIP2Location", error |-> ""]
            ELSE [NoInterface EXCEPT !.error = "GwaIP2Location failure"]
  ELSE [NoInterface EXCEPT !.error = "Could not identify a database to load"]

\* new GwaDb(dbOptions, ...): constructed is FALSE where the constructor threw
\* and no object exists.
NewGwaDb(gwaDbOptions, opens) ==
  LET dbInterface == getDbInterface(gwaDbOptions, opens)
  IN [called |-> TRUE, dbOptions |-> gwaDbOptions, constructed |-> dbInterface.made,
      dbProvider_ |-> IF dbInterface.made THEN "MAXMIND" ELSE "",
      dbInterface_ |-> dbInterface.adapter, error |-> dbInterface.error]

NoGwaDb ==
  [called |-> FALSE,
   dbOptions |-> [dbProvider |-> "UNKNOWN", maxMindOptions |-> NoBackendOptions,
                  ip2LocationOptions |-> NoBackendOptions],
   constructed |-> FALSE, dbProvider_ |-> "", dbInterface_ |-> "", error |-> ""]

\* The process before new GwaCli().run() is called.
InitCli ==
  /\ cli = CliStart
  /\ gwaDb = NoGwaDb
  /\ enabledOutputs_ = << >>
  /\ calls = [c \in Calls |-> IdleCall]
  /\ impl = "ts"
  /\ optSrc = NoSource
  /\ optPc = "ready"
  /\ optTarget = NoSource
  /\ dbOptions = NoSource
  /\ origins_ = NoSource
  /\ originRegEx_ = NoSource
  /\ corsLast = NoSource

Run(argvConfig, file, accessible, serverConstructs) ==
  /\ cli.pc = "start"
  /\ cli' = run(argvConfig, file, accessible, serverConstructs)
  /\ UNCHANGED <<gwaDb, lookupVars, optionVars, corsVars>>

\* await gwaServer.start() resolves: the server is listening.
StartResolves ==
  /\ cli.pc = "starting"
  /\ cli' = [cli EXCEPT !.pc = "serving"]
  /\ UNCHANGED <<gwaDb, lookupVars, optionVars, corsVars>>

\* await gwaServer.start() rejects, and so does run().
StartRejects ==
  /\ cli.pc = "starting"
  /\ cli' = [cli EXCEPT !.pc = "rejected", !.error = ServerFailure]
  /\ UNCHANGED <<gwaDb, lookupVars, optionVars, corsVars>>

\* The handler given to run().catch.
RunCatch ==
  /\ cli.pc = "rejected"
  /\ cli' = [cli EXCEPT !.pc = "exited", !.exitCode = 1]
  /\ UNCHANGED <<gwaDb, lookupVars, optionVars, corsVars>>

ConstructGwaDb(gwaDbOptions, opens) ==
  /\ gwaDb' = NewGwaDb(gwaDbOptions, opens)
  /\ UNCHANGED <<cli, lookupVars, optionVars, corsVars>>

NextCli ==
  \/ \E argvConfig \in ArgvConfigValues, accessible, serverConstructs \in BOOLEAN :
       \/ Run(argvConfig, BadJson, accessible, serverConstructs)
       \/ Run(argvConfig, JsonText(NonObject), accessible, serverConstructs)
       \/ \E m \in MaxMindValues, i \in Ip2LocationValues :
            Run(argvConfig, JsonText(SourceOf(8, m, 9, i)), accessible, serverConstructs)
  \/ StartResolves
  \/ StartRejects
  \/ RunCatch
  \/ \E gwaDbOptions \in GwaDbOptionsValues, opens \in BOOLEAN :
       ConstructGwaDb(gwaDbOptions, opens)

SpecCli == InitCli /\ [][NextCli]_vars

(***************************************************************************)
(* Claims about GwaDb.lookup and GwaDb.geoIpApiResponse, under SpecLookup. *)
(***************************************************************************)
Enabled(output) == \E i \in 1..Len(enabledOutputs_) : enabledOutputs_[i] = output
EnabledSet == {enabledOutputs_[i] : i \in 1..Len(enabledOutputs_)}

\* The response holds ip and ip_version, each exactly when enabled, with these values.
IpKeysAre(call, version) ==
  /\ HasKey(call.response, "ip") <=> Enabled("ip")
  /\ HasKey(call.response, "ip") => Get(call.response, "ip") = Str(call.ip)
  /\ HasKey(call.response, "ip_version") <=> Enabled("ip_version")
  /\ HasKey(call.response, "ip_version") => Get(call.response, "ip_version") = Num(version)

\* C1: a lookup of a string that is neither IPv4 nor IPv6 never reaches the
\* adapter's get, returns a non-null error, and its response holds ip (the
\* input) and ip_version 0 when enabled and no country, subdivision or data,
\* for every enabled-outputs list, those within {ip, ip_version} included.
C1_InvalidIpReturnsError ==
  \A c \in Calls :
    (calls[c].pc # "idle" /\ isIP(calls[c].ip) = 0) =>
      /\ calls[c].pc = "returned"
      /\ calls[c].gets = 0
      /\ calls[c].error # Null
      /\ IpKeysAre(calls[c], 0)
      /\ KeySet(calls[c].response) \subseteq {"ip", "ip_version"}

C1_Witness ==
  \E c \in Calls :
    /\ calls[c].pc = "returned"
    /\ calls[c].ip = "999.1.1.1"
    /\ enabledOutputs_ = <<"ip_version">>
    /\ calls[c].error # Null
    /\ calls[c].response = << <<"ip_version", Num(0)>> >>

\* C2: for a valid IP and enabled outputs within {ip, ip_version} (none
\* included) lookup never invokes get, returns error null and a response of
\* exactly the enabled keys among ip (the input) and ip_version (4 or 6);
\* once country, subdivision or data is enabled, get is invoked exactly once.
C2_ShortCircuitSkipsBackend ==
  \A c \in Calls :
    (calls[c].pc # "idle" /\ isIP(calls[c].ip) # 0) =>
      /\ EnabledSet \subseteq {"ip", "ip_version"} =>
           /\ calls[c].pc = "returned"
           /\ calls[c].gets = 0
           /\ calls[c].error = Null
           /\ IpKeysAre(calls[c], isIP(calls[c].ip))
           /\ isIP(calls[c].ip) \in {4, 6}
           /\ KeySet(calls[c].response) \subseteq {"ip", "ip_version"}
      /\ EnabledSet \cap {"country", "subdivision", "data"} # {} => calls[c].gets = 1

C2_Witness ==
  \E c \in Calls :
    /\ calls[c].pc = "returned"
    /\ calls[c].ip = "8.8.8.8"
    /\ enabledOutputs_ = <<"ip_version">>
    /\ calls[c].gets = 0
    /\ calls[c].response = << <<"ip_version", Num(4)>> >>

\* C3: every returned lookup carries a result whose error is non-null exactly
\* when the IP is invalid or get was consulted and returned null; after such a
\* miss the response is still the one shaped from a null record.
C3_ErrorExactlyOnInvalidOrMiss ==
  \A c \in Calls :
    calls[c].pc = "returned" =>
      /\ calls[c].error # Null <=>
           \/ isIP(calls[c].ip) = 0
           \/ calls[c].gets = 1 /\ calls[c].dbResult = Null
      /\ (calls[c].gets = 1 /\ calls[c].dbResult = Null) =>
           /\ IpKeysAre(calls[c], isIP(calls[c].ip))
           /\ ~HasKey(calls[c].response, "data")

C3_Witness ==
  \E c \in Calls :
    /\ calls[c].pc = "returned"
    /\ calls[c].ip = "::1"
    /\ calls[c].gets = 1
    /\ calls[c].dbResult = Null
    /\ calls[c].error # Null
    /\ enabledOutputs_ = <<"country", "ip">>
    /\ calls[c].response = << <<"ip", Str("::1")>> >>

CanonicalOrder == <<"ip", "ip_version", "country", "subdivision", "data">>
PlaceIn(list, k) == CHOOSE i \in 1..Len(list) : list[i] = k /\ \A j \in 1..(i - 1) : list[j] # k

\* The keys of obj come in the order in which list first names them.
KeysFollow(obj, list) ==
  /\ \A i \in 1..Len(obj) : \E j \in 1..Len(list) : list[j] = obj[i][1]
  /\ \A i, j \in 1..Len(obj) : i < j => PlaceIn(list, obj[i][1]) < PlaceIn(list, obj[j][1])

\* C4 as stated: the response lists its keys in the canonical order ip,
\* ip_version, country, subdivision, data whatever order the enabled-outputs
\* list names them in.
C4_KeysInCanonicalOrder ==
  \A c \in Calls : calls[c].pc = "returned" => KeysFollow(calls[c].response, CanonicalOrder)

\* C4 as amended: the response lists its keys in the order in which the
\* enabled-outputs list given to GwaDb first names them.
C4_KeysInEnabledListOrder ==
  \A c \in Calls : calls[c].pc = "returned" => KeysFollow(calls[c].response, enabledOutputs_)

C4_Witness ==
  \E c \in Calls :
    /\ calls[c].pc = "returned"
    /\ enabledOutputs_ = <<"data", "country", "ip">>
    /\ Keys(calls[c].response) = <<"data", "country", "ip">>

\* C5: in every outcome the response's keys are enabled output names and no
\* key maps to null; ip and ip_version are present whenever enabled; country
\* and subdivision exactly when enabled and getStringValue of the record is
\* non-null; data exactly when enabled and the record is non-null.
C5_SparseResponse ==
  \A c \in Calls :
    calls[c].pc = "returned" =>
      /\ KeySet(calls[c].response) \subseteq EnabledSet
      /\ \A i \in 1..Len(calls[c].response) : calls[c].response[i][2] # Null
      /\ IpKeysAre(calls[c], isIP(calls[c].ip))
      /\ \A f \in {"country", "subdivision"} :
           /\ HasKey(calls[c].response, f) <=>
                (Enabled(f) /\ getStringValue(calls[c].dbResult, f) # Null)
           /\ HasKey(calls[c].response, f) =>
                Get(calls[c].response, f) = getStringValue(calls[c].dbResult, f)
      /\ HasKey(calls[c].response, "data") <=> (Enabled("data") /\ calls[c].dbResult # Null)
      /\ HasKey(calls[c].response, "data") => Get(calls[c].response, "data") = calls[c].dbResult

C5_Witness ==
  \E c \in Calls :
    /\ calls[c].pc = "returned"
    /\ calls[c].dbResult = Obj("recNoSubdivision")
    /\ enabledOutputs_ = <<"country", "subdivision">>
    /\ calls[c].response = << <<"country", Str("US")>> >>

(***************************************************************************)
(* Claims about overlayOptions and getDbOptions, under SpecOptions.        *)
(***************************************************************************)
Overlaid == optPc \in {"overlaid", "selected"}

\* v is a string with something other than blanks in it.
NonBlankString(v) == v.t = "string" /\ \E i \in 1..Len(v.s) : v.s[i] # " "

MaxMindSupplied == optSrc.isObj /\ optSrc.maxmind.isObj /\ NonBlankString(optSrc.maxmind.dbPath)

\* C6: when the source supplies a non-blank maxmind.dbPath, whatever its
\* ip2location section holds, the result's ip2location.dbPath and
\* subdivisionCsvPath stay '' and getDbOptions yields MAXMIND with
\* maxMindOptions and no ip2LocationOptions; IP2LOCATION is activated only
\* when no MaxMind path is supplied, and only then is subdivisionCsvPath taken.
C6_MaxMindTakesPrecedence ==
  /\ (Overlaid /\ MaxMindSupplied) =>
       /\ optTarget.ip2location.dbPath = << >>
       /\ optTarget.ip2location.subdivisionCsvPath = << >>
       /\ optTarget.maxmind.dbPath # << >>
  /\ (optPc = "selected" /\ MaxMindSupplied) =>
       /\ dbOptions.dbProvider = "MAXMIND"
       /\ dbOptions.maxMindOptions.set
       /\ dbOptions.maxMindOptions.dbPath = optTarget.maxmind.dbPath
       /\ ~dbOptions.ip2LocationOptions.set
  /\ (optPc = "selected" /\ dbOptions.dbProvider = "IP2LOCATION") =>
       /\ ~MaxMindSupplied
       /\ optSrc.ip2location.isObj
       /\ optSrc.ip2location.dbPath.t = "string"
       /\ optSrc.ip2location.dbPath.s # << >>
  /\ (Overlaid /\ optTarget.ip2location.subdivisionCsvPath # << >>) =>
       /\ ~MaxMindSupplied
       /\ optTarget.ip2location.dbPath # << >>
       /\ optTarget.maxmind.dbPath = << >>
       /\ optSrc.ip2location.subdivisionCsvPath.t = "string"

C6_Witness ==
  /\ optPc = "selected"
  /\ optSrc.maxmind.isObj /\ optSrc.maxmind.dbPath = JString(<<"/", "m">>)
  /\ optSrc.ip2location.isObj
  /\ optSrc.ip2location.dbPath = JString(<<"/", "i">>)
  /\ optSrc.ip2location.subdivisionCsvPath = JString(<<" ", "/", "s", " ">>)
  /\ dbOptions.dbProvider = "MAXMIND"
  /\ optTarget.ip2location.dbPath = << >>

\* What the claims call a valid value of each field, and the value taken from it.
NumberWithin(v, lo, hi) == v.t = "number" /\ v.n >= 2 * lo /\ v.n <= 2 * hi

ValidHeaderValue(v) == v.t = "string" \/ v = JNull

\* The places of the source list's entries that survive: strings that are not blank.
Survivors(items) == {i \in 1..Len(items) : NonBlankString(items[i])}

\* paths is the survivors of items, each trimmed, in their order.
IsTrimmedSurvivors(paths, items) ==
  /\ Len(paths) = Cardinality(Survivors(items))
  /\ \A k \in 1..Len(paths) :
       \E i \in Survivors(items) :
         /\ Cardinality({j \in Survivors(items) : j <= i}) = k
         /\ paths[k] = Trim(items[i].s)

\* C8: the resulting header map holds no two keys equal ignoring case; for
\* each group of source keys differing only in case and carrying a string or
\* null, it holds one entry, with the key and value of the last such key in
\* source order; a later case-variant with an invalid value displaces nothing.
C8_HeadersLastCaseVariantWins ==
  (Overlaid /\ optSrc.isObj /\ optSrc.getHeaders.isObj) =>
    LET entries == optSrc.getHeaders.entries
        headers == optTarget.getHeaders
        valid == {i \in 1..Len(entries) : ValidHeaderValue(entries[i][2])}
        lastOfGroup == {i \in valid :
                          \A j \in valid :
                            ToLowerCase(entries[j][1]) = ToLowerCase(entries[i][1]) => j <= i}
    IN /\ \A i, j \in 1..Len(headers) :
            i # j => ToLowerCase(headers[i][1]) # ToLowerCase(headers[j][1])
       /\ \A i \in lastOfGroup : \E k \in 1..Len(headers) : headers[k] = entries[i]
       /\ \A k \in 1..Len(headers) : \E i \in lastOfGroup : headers[k] = entries[i]

C8_Witness ==
  /\ Overlaid
  /\ optSrc.getHeaders.isObj
  /\ optSrc.getHeaders.entries = << <<<<"A", "b">>, JString(<<"1">>)>>, <<<<"a", "B">>, JNull>> >>
  /\ optTarget.getHeaders = << <<<<"a", "B">>, JNull>> >>

\* C9: logLevel is taken from the source only if it is a number in 0..4 and
\* port only if it is a number in 0..65535, each floored; any other source
\* value leaves the default (3 and 3000); so the result's logLevel is an
\* integer in 0..4 and its port an integer in 0..65535.
C9_NumericFieldsValidated ==
  (Overlaid /\ optSrc.isObj) =>
    /\ optTarget.logLevel =
         IF NumberWithin(optSrc.logLevel, 0, 4) THEN Floor(optSrc.logLevel.n) ELSE 3
    /\ optTarget.port =
         IF NumberWithin(optSrc.port, 0, 65535) THEN Floor(optSrc.port.n) ELSE 3000
    /\ optTarget.logLevel \in 0..4
    /\ optTarget.port \in 0..65535

\* C10: getPaths of the result is never empty and holds only trimmed,
\* non-blank strings: a source list is taken wholesale, its non-string and
\* blank entries dropped and the others kept in order; a source list with no
\* survivor yields exactly ['/']; a source that is no list leaves the default.
C10_GetPathsNeverEmpty ==
  Overlaid =>
    /\ Len(optTarget.getPaths) >= 1
    /\ \A k \in 1..Len(optTarget.getPaths) :
         /\ optTarget.getPaths[k] # << >>
         /\ optTarget.getPaths[k][1] # " "
         /\ optTarget.getPaths[k][Len(optTarget.getPaths[k])] # " "
    /\ IF optSrc.isObj /\ optSrc.getPaths.isArr
       THEN IF Survivors(optSrc.getPaths.items) = {}
            THEN optTarget.getPaths = << <<"/">> >>
            ELSE IsTrimmedSurvivors(optTarget.getPaths, optSrc.getPaths.items)
       ELSE optTarget.getPaths = << <<"/">>, <<"/", "*">> >>

C10_Witness ==
  /\ Overlaid
  /\ optSrc.getPaths.isArr
  /\ optSrc.getPaths.items = <<JString(<<" ">>), JNumber(10)>>
  /\ optTarget.getPaths = << <<"/">> >>

\* The value each field takes from a source object when validated on its own.
FieldwiseLogLevel ==
  IF NumberWithin(optSrc.logLevel, LogLevelOff, LogLevelDebug)
  THEN Floor(optSrc.logLevel.n) ELSE LogLevelInfo

FieldwisePort ==
  IF NumberWithin(optSrc.port, 0, MaxPort) THEN Floor(optSrc.port.n) ELSE DefaultPort

FieldwiseToggle(output) ==
  IF optSrc.enabledOutputs.isObj /\ optSrc.enabledOutputs[output].t = "boolean"
  THEN optSrc.enabledOutputs[output].n = 1
  ELSE getDefaultOptions.enabledOutputs[output]

FieldwisePrettyOutput ==
  IF optSrc.prettyOutput.t = "boolean" THEN optSrc.prettyOutput.n = 1 ELSE FALSE

FieldwiseOriginRegEx ==
  IF optSrc.cors.isObj /\ \/ optSrc.cors.originRegEx.t = "string" /\ optSrc.cors.originRegEx.s # << >>
                          \/ optSrc.cors.originRegEx.t = "regexp"
  THEN optSrc.cors.originRegEx ELSE JNull

FieldwisePath(v, default) ==
  IF NonBlankString(v) THEN expandTildePath(Trim(v.s)) ELSE default

\* The fields other than the backend paths, each validated on its own.
NonBackendFieldsFieldwise ==
  /\ \A output \in KnownOutputs : optTarget.enabledOutputs[output] = FieldwiseToggle(output)
  /\ optTarget.prettyOutput = FieldwisePrettyOutput
  /\ ~optSrc.getHeaders.isObj => optTarget.getHeaders = << >>
  /\ optSrc.getHeaders.isObj =>
       \A k \in 1..Len(optTarget.getHeaders) :
         /\ ValidHeaderValue(optTarget.getHeaders[k][2])
         /\ \E i \in 1..Len(optSrc.getHeaders.entries) :
              optSrc.getHeaders.entries[i] = optTarget.getHeaders[k]
  /\ IF optSrc.getPaths.isArr /\ Survivors(optSrc.getPaths.items) # {}
     THEN IsTrimmedSurvivors(optTarget.getPaths, optSrc.getPaths.items)
     ELSE optTarget.getPaths = IF optSrc.getPaths.isArr THEN << <<"/">> >>
                               ELSE getDefaultOptions.getPaths
  /\ IF optSrc.cors.isObj /\ optSrc.cors.origins.isArr
     THEN /\ ~optTarget.cors.origins.isNull
          /\ IsTrimmedSurvivors(optTarget.cors.origins.items, optSrc.cors.origins.items)
     ELSE optTarget.cors.origins = NullList
  /\ optTarget.cors.originRegEx = FieldwiseOriginRegEx

LookupAlone(outs, ip, dbResult) ==
  LET first == LookupSync(outs, ip)
  IN IF first.pc = "returned" THEN first ELSE LookupAfterGet(outs, first, dbResult)

\* Every returned call holds the result of its own lookup run alone.
OwnResult ==
  \A c \in Calls :
    calls[c].pc = "returned" =>
      LET alone == LookupAlone(enabledOutputs_, calls[c].ip, calls[c].dbResult)
      IN /\ calls[c].error = alone.error
         /\ calls[c].response = alone.response
         /\ calls[c].ipVersion = isIP(calls[c].ip)
         /\ HasKey(calls[c].response, "ip") => Get(calls[c].response, "ip") = Str(calls[c].ip)
         /\ HasKey(calls[c].response, "data") =>
              Get(calls[c].response, "data") = calls[c].dbResult

\* C14: however concurrent lookups interleave at the await of get and in
\* whatever order they complete, each returns the result it would return if
\* run alone, shaped from its own ip, version and record; and no step of a
\* lookup changes the orchestrator's enabled-outputs list.
C14_ConcurrentLookupsIsolated ==
  /\ []OwnResult
  /\ [][enabledOutputs_' = enabledOutputs_]_vars

\* One call has returned, its get resolved, while the other, started with
\* another IP, still awaits its own get.
C14_Witness ==
  /\ calls["a"].pc = "awaitGet" /\ calls["a"].ip = "8.8.8.8"
  /\ calls["b"].pc = "returned" /\ calls["b"].ip = "::1" /\ calls["b"].gets = 1
  /\ calls["b"].dbResult = Obj("recFull")
  /\ enabledOutputs_ = <<"ip", "country">>
  /\ calls["b"].response = << <<"ip", Str("::1")>>, <<"country", Str("US")>> >>

\* C15: for every source the result has exactly one of maxmind.dbPath and
\* ip2location.dbPath non-empty (the default MaxMind path when the source
\* names neither backend, maxmind.dbPath '' when IP2Location is activated),
\* so getDbOptions never yields UNKNOWN; and ip2location.subdivisionCsvPath is
\* non-empty only if ip2location.dbPath is.
C15_ExactlyOneBackend ==
  /\ Overlaid =>
       /\ (optTarget.maxmind.dbPath # << >>) # (optTarget.ip2location.dbPath # << >>)
       /\ (/\ ~(optSrc.isObj /\ optSrc.maxmind.isObj /\ optSrc.maxmind.dbPath.t = "string")
           /\ ~(optSrc.isObj /\ optSrc.ip2location.isObj
                  /\ optSrc.ip2location.dbPath.t = "string")) =>
            optTarget.maxmind.dbPath = DefaultMaxMindPath
       /\ optTarget.ip2location.subdivisionCsvPath # << >> =>
            optTarget.ip2location.dbPath # << >>
  /\ optPc = "selected" =>
       /\ dbOptions.dbProvider # "UNKNOWN"
       /\ dbOptions.dbProvider = "IP2LOCATION" <=> optTarget.maxmind.dbPath = << >>

C15_Witness ==
  /\ optPc = "selected"
  /\ optSrc.isObj /\ ~optSrc.maxmind.isObj
  /\ optSrc.ip2location.isObj
  /\ optSrc.ip2location.dbPath = JString(<<"~", "u", "/", "i">>)
  /\ optTarget.maxmind.dbPath = << >>
  /\ optTarget.ip2location.dbPath = <<"/", "h", "o", "m", "e", "/", "u", "/", "i">>
  /\ dbOptions.dbProvider = "IP2LOCATION"

(***************************************************************************)
(* Claims about the Cors matcher, under SpecCors.                          *)
(***************************************************************************)
\* Whether the pattern of re matches somewhere in str.
RegExMatches(re, str) == \E i \in 0..Len(str) : MatchesAt(re, str, i)

\* origin is non-empty and the stored list holds it or the stored RegExp matches it.
StoredAllows(origin) ==
  /\ origin # << >>
  /\ \/ ~origins_.isNull /\ Includes(origins_.items, origin)
     \/ ~originRegEx_.isNull /\ RegExMatches(originRegEx_, origin)

\* C11: isCorsOrigin(origin) is true exactly when origin is non-empty and
\* equals an entry of the stored list or is matched by the stored RegExp;
\* getCorsHeaders(origin) returns the single header Access-Control-Allow-Origin
\* with the supplied origin when an origin was supplied and isCorsOrigin holds
\* for it, null otherwise; setOrigins leaves the stored RegExp unchanged and
\* setOriginRegEx leaves the stored list unchanged.
C11_MatcherExact ==
  [][/\ corsLast'.op = "isCorsOrigin" => (corsLast'.result <=> StoredAllows(corsLast'.origin))
     /\ corsLast'.op = "getCorsHeaders" =>
          corsLast'.headers = IF corsLast'.hasOrigin /\ StoredAllows(corsLast'.origin)
                              THEN << <<AllowOrigin, corsLast'.origin>> >>
                              ELSE << >>
     /\ corsLast'.op = "setOrigins" => originRegEx_' = originRegEx_
     /\ corsLast'.op = "setOriginRegEx" => origins_' = origins_]_vars

\* The indexes of the entries that survive: non-blank and parseable as a URL.
SurvivingOrigins(items) ==
  {i \in 1..Len(items) : Trim(items[i]) # << >> /\ URLOrigin(Trim(items[i])).ok}

\* A canonical origin: "null", or scheme://host[:port] with nothing after it.
CanonicalOrigin(o) ==
  \/ o = <<"n", "u", "l", "l">>
  \/ /\ Cardinality({i \in 1..Len(o) : o[i] = "/"}) = 2
     /\ o = ToLowerCase(o)
     /\ o = Trim(o)

\* C12: after construction and after every setOrigins the stored list is null
\* or non-empty; each entry is the canonical URL origin of a trimmed,
\* non-blank, parseable input entry, in input order; input that is null, not
\* a list, empty or without a valid entry yields null.
C12_StoredOriginsSanitized ==
  /\ origins_.isNull \/ Len(origins_.items) >= 1
  /\ \A k \in 1..Len(origins_.items) : CanonicalOrigin(origins_.items[k])
  /\ corsLast.op \in {"constructor", "setOrigins"} =>
       LET items == corsLast.originsArg.items
           S == SurvivingOrigins(items)
           place(k) == CHOOSE i \in S : Cardinality({j \in S : j <= i}) = k
       IN /\ origins_.isNull <=> (corsLast.originsArg.kind # "array" \/ S = {})
          /\ Len(origins_.items) = Cardinality(S)
          /\ \A k \in 1..Len(origins_.items) :
               origins_.items[k] = URLOrigin(Trim(items[place(k)])).origin

\* setOrigins(["x", " https://a/p "]) stored ["https://a"].
C12_Witness ==
  /\ corsLast.op = "setOrigins"
  /\ corsLast.originsArg = OriginsArray(<< <<"x">>, <<" ">> \o HttpsA \o <<"/", "p", " ">> >>)
  /\ origins_ = List(<<HttpsA>>)

\* C16: with no setter call in between, the answer of isCorsOrigin and of
\* getCorsHeaders for an origin is the same whether or not another query, for
\* the same or for any other origin, came before it, whatever RegExp is stored.
C16_QueriesArePure ==
  corsLast # NoSource =>
    \A before, origin \in QueryOrigins :
      LET first == isCorsOrigin(origins_, originRegEx_, before)
          firstHeaders == getCorsHeaders(origins_, originRegEx_, TRUE, before)
      IN /\ isCorsOrigin(origins_, first.originRegEx, origin).result
              = isCorsOrigin(origins_, originRegEx_, origin).result
         /\ getCorsHeaders(origins_, firstHeaders.originRegEx, TRUE, origin).headers
              = getCorsHeaders(origins_, originRegEx_, TRUE, origin).headers

(***************************************************************************)
(* Claim about startup, under SpecCli.                                     *)
(***************************************************************************)
\* The database path the options select: MaxMind's if non-empty, else IP2Location's.
SelectedPath(options) ==
  IF options.maxmind.dbPath # << >> THEN options.maxmind.dbPath ELSE options.ip2location.dbPath

\* The provider named is UNKNOWN, or the options of the provider named are missing.
Unusable(gwaDbOptions) ==
  \/ gwaDbOptions.dbProvider = "UNKNOWN"
  \/ gwaDbOptions.dbProvider = "MAXMIND" /\ ~gwaDbOptions.maxMindOptions.set
  \/ gwaDbOptions.dbProvider = "IP2LOCATION" /\ ~gwaDbOptions.ip2LocationOptions.set

\* C13: run constructs and starts the server only after the access check on
\* the selected database path has succeeded; where that check fails, run fails
\* with 'Could not read database' and the process exit code becomes 1; and
\* new GwaDb throws, leaving no object, whenever the provider is UNKNOWN or the
\* selected provider's options are missing.
C13_NoServingWithoutBackend ==
  /\ cli.pc \in {"starting", "serving"} =>
       /\ cli.asserted /\ cli.accessible
       /\ cli.dbPath # << >>
       /\ cli.dbPath = SelectedPath(cli.options)
       /\ cli.exitCode = 0
  /\ (cli.asserted /\ ~(cli.accessible /\ cli.dbPath # << >>)) =>
       /\ cli.pc \in {"rejected", "exited"}
       /\ cli.error = CouldNotReadDatabase
  /\ cli.pc = "exited" => cli.exitCode = 1 /\ cli.error # ""
  /\ (gwaDb.called /\ Unusable(gwaDb.dbOptions)) =>
       ~gwaDb.constructed /\ gwaDb.dbInterface_ = "" /\ gwaDb.error # ""
  /\ gwaDb.constructed =>
       gwaDb.dbInterface_ = (IF gwaDb.dbOptions.dbProvider = "MAXMIND" THEN "GwaMaxMind"
                             ELSE "GwaIP2Location")

\* The process has exited with code 1 because the IP2Location file the
\* configuration selects is not there, and a GwaDb construction with the
\* provider's options missing has thrown.
C13_Witness ==
  /\ cli.pc = "exited" /\ cli.exitCode = 1 /\ cli.error = CouldNotReadDatabase
  /\ cli.asserted /\ ~cli.accessible /\ cli.dbPath = <<"/", "i">>
  /\ cli.options.maxmind.dbPath = << >>
  /\ gwaDb.called /\ ~gwaDb.constructed
  /\ gwaDb.dbOptions.dbProvider = "IP2LOCATION" /\ ~gwaDb.dbOptions.ip2LocationOptions.set

====
